---- MODULE Spec2Model ----
(***************************************************************************)
(* Model of gen_fhss_hops.py: binding phrase -> 6-byte UID -> 32-bit seed  *)
(* -> firmware LCG -> 256-entry hop sequence.                              *)
(*                                                                         *)
(* Python integers are unbounded, TLC's are 32-bit signed.  Every 32-bit   *)
(* quantity of the program (the seed, the LCG state) is therefore kept as  *)
(* a word <<hi, lo>> of two 16-bit halves, and the arithmetic on words is  *)
(* carried out half by half so that no intermediate exceeds 2^31 - 1.      *)
(* Python's 0-based lists and bytes are functions on 0..n-1.               *)
(***************************************************************************)
EXTENDS Integers, Sequences, FiniteSets

VARIABLES entry, pc, exc, phrase, domain, uid, seed, freq_count,
          sync_channel, rng, sequence, i, draws, sync_reported, prev

vars == <<entry, pc, exc, phrase, domain, uid, seed, freq_count,
          sync_channel, rng, sequence, i, draws, sync_reported, prev>>

-----------------------------------------------------------------------------
(* Program constants *)

FHSS_SEQUENCE_LEN == 256

OTA_VERSION_ID == 4

LCG_MULTIPLIER == 1103515245

LCG_INCREMENT == 12345

DOMAINS ==
    [FCC915 |-> [freq_start |-> 903500000, freq_stop |-> 926900000,
                 freq_count |-> 40, sync_center_freq |-> 915000000],
     AU915  |-> [freq_start |-> 915500000, freq_stop |-> 926900000,
                 freq_count |-> 20, sync_center_freq |-> 921000000],
     EU868  |-> [freq_start |-> 865275000, freq_stop |-> 869575000,
                 freq_count |-> 13, sync_center_freq |-> 868000000],
     IN866  |-> [freq_start |-> 865375000, freq_stop |-> 866950000,
                 freq_count |-> 4, sync_center_freq |-> 866000000]]

-----------------------------------------------------------------------------
(* Bounds of the model *)

\* Number of seeds tried when FHSSGenerator is constructed directly.
NumApiSeeds == 2

-----------------------------------------------------------------------------
(* 32-bit words as <<hi, lo>>, 16 bits each *)

HALF == 2 ^ 16

RECURSIVE BitAnd(_, _)
BitAnd(x, y) ==
    IF x = 0 \/ y = 0 THEN 0
    ELSE (x % 2) * (y % 2) + 2 * BitAnd(x \div 2, y \div 2)

RECURSIVE BitOr(_, _)
BitOr(x, y) ==
    IF x = 0 THEN y
    ELSE IF y = 0 THEN x
    ELSE (IF x % 2 = 1 \/ y % 2 = 1 THEN 1 ELSE 0) + 2 * BitOr(x \div 2, y \div 2)

RECURSIVE BitXor(_, _)
BitXor(x, y) ==
    IF x = 0 THEN y
    ELSE IF y = 0 THEN x
    ELSE (((x % 2) + (y % 2)) % 2) + 2 * BitXor(x \div 2, y \div 2)

\* A non-negative integer below 2^31 as a word.
ToWord(n) == <<n \div HALF, n % HALF>>

WordAnd(a, b) == <<BitAnd(a[1], b[1]), BitAnd(a[2], b[2])>>

WordOr(a, b) == <<BitOr(a[1], b[1]), BitOr(a[2], b[2])>>

\* a + b, low 32 bits.
WordAdd(a, b) ==
    LET lo == a[2] + b[2]
        hi == a[1] + b[1] + (lo \div HALF)
    IN  <<hi % HALF, lo % HALF>>

\* x * y for 16-bit x and y, as a word (the product is below 2^32).
Mul16(x, y) ==
    LET p0 == x * (y % 256)
        p1 == x * (y \div 256)
    IN  WordAdd(ToWord(p0), <<p1 \div 256, (p1 % 256) * 256>>)

\* a * b, low 32 bits.
WordMul(a, b) ==
    LET cross == (Mul16(a[1], b[2])[2] + Mul16(a[2], b[1])[2]) % HALF
    IN  WordAdd(Mul16(a[2], b[2]), <<cross, 0>>)

\* w % m for 0 < m < 2^15.
WordMod(w, m) == (((w[1] % m) * (HALF % m)) + (w[2] % m)) % m

\* byte << n for n in {0, 8, 16, 24}, as a word.
ShiftLeft(byte, n) ==
    IF n >= 16 THEN <<(byte * (2 ^ (n - 16))) % HALF, 0>>
    ELSE ToWord(byte * (2 ^ n))

MASK32 == <<65535, 65535>>

MASK31 == <<32767, 65535>>

-----------------------------------------------------------------------------
(* generate_uid *)

DecimalDigits == {"0", "1", "2", "3", "4", "5", "6", "7", "8", "9"}

\* "U+00B2" is SUPERSCRIPT TWO: str.isdigit() accepts it, int() does not.
\* "U+DCFF" is a lone surrogate, which is what a byte 0xFF in argv decodes to.
IsDigitChar(c) == c \in DecimalDigits \cup {"U+00B2"}

DigitValue(c) ==
    CASE c = "0" -> 0 [] c = "1" -> 1 [] c = "2" -> 2 [] c = "3" -> 3
      [] c = "4" -> 4 [] c = "5" -> 5 [] c = "6" -> 6 [] c = "7" -> 7
      [] c = "8" -> 8 [] c = "9" -> 9

\* str.split(','): always at least one token, empty tokens kept.
RECURSIVE SplitFrom(_, _, _, _)
SplitFrom(s, k, cur, acc) ==
    IF k > Len(s) THEN Append(acc, cur)
    ELSE IF s[k] = "," THEN SplitFrom(s, k + 1, <<>>, Append(acc, cur))
    ELSE SplitFrom(s, k + 1, Append(cur, s[k]), acc)

Split(s) == SplitFrom(s, 1, <<>>, <<>>)

\* str.isdigit(): non-empty and every character a digit.
IsDigit(item) == Len(item) > 0 /\ \A k \in 1..Len(item) : IsDigitChar(item[k])

\* int(item) raises ValueError on a digit that is not a decimal digit.
IntRaises(item) == \E k \in 1..Len(item) : item[k] \notin DecimalDigits

RECURSIVE IntFrom(_, _, _)
IntFrom(item, k, acc) ==
    IF k > Len(item) THEN acc
    ELSE IntFrom(item, k + 1, acc * 10 + DigitValue(item[k]))

ParseInt(item) == IntFrom(item, 1, 0)

\* str.encode(): UTF-8 cannot encode a lone surrogate.
EncodeRaises(s) == \E k \in 1..Len(s) : s[k] = "U+DCFF"

\* hashlib.md5(f'-DMY_BINDING_PHRASE="{phrase}"'.encode()).digest()[:6],
\* tabulated for the phrases of the model.
Md5First6(s) ==
    CASE s = <<"4","2",",","1","3",",","9",",","8">> -> <<0, 20, 228, 163, 187, 220>>
      [] s = <<"0",",","0",",","0",",","4">> -> <<167, 150, 249, 187, 205, 149>>
      [] s = <<"7",",","9",",","4","2",",","1","3",",","9",",","8">>
            -> <<32, 170, 144, 165, 17, 175>>
      [] s = <<"1","7","0",",","1","3",",","9",",","8">> -> <<64, 19, 248, 21, 95, 38>>
      [] s = <<"1",",","2",",","3">> -> <<221, 32, 136, 171, 241, 187>>
      [] s = <<"2","5","6",",","1",",","2",",","3">> -> <<114, 145, 43, 214, 158, 120>>
      [] s = <<>> -> <<212, 50, 59, 163, 20, 74>>
      [] s = <<"U+00B2",",","1",",","2",",","3">> -> <<129, 152, 236, 117, 85, 90>>

\* bytes(list): a 0-based byte string.
Bytes(list) == [k \in 0..(Len(list) - 1) |-> list[k + 1]]

\* The result of a call: the exception that escapes it, or the value returned.
Raise(e) == [exc |-> e, value |-> <<>>]

Return(v) == [exc |-> "none", value |-> v]

UidFallback(s) ==
    IF EncodeRaises(s) THEN Raise("UnicodeEncodeError")
    ELSE Return(Bytes(Md5First6(s)))

LenOk(n) == 4 <= n /\ n <= 6

generate_uid(s) ==
    LET items == Split(s)
        n == Len(items)
        valueError == \E k \in 1..n : IsDigit(items[k]) /\ IntRaises(items[k])
        list == [k \in 1..n |-> IF IsDigit(items[k]) THEN ParseInt(items[k]) ELSE -1]
    IN  IF valueError THEN UidFallback(s)
        ELSE IF LenOk(n) /\ \A k \in 1..n : 0 <= list[k] /\ list[k] < 256
        THEN Return(Bytes([k \in 1..6 |-> IF k <= 6 - n THEN 0 ELSE list[k - (6 - n)]]))
        ELSE UidFallback(s)

-----------------------------------------------------------------------------
(* compute_seed_from_uid *)

\* Variant: the version constant is OR-ed in instead of XOR-ed.
compute_seed_or_version(u) ==
    WordAnd(WordOr(WordOr(ShiftLeft(u[2], 24), ShiftLeft(u[3], 16)),
                   WordOr(ShiftLeft(u[4], 8), ToWord(BitOr(u[5], OTA_VERSION_ID)))),
            MASK32)

compute_seed_from_uid(u) ==
    WordAnd(WordOr(WordOr(ShiftLeft(u[2], 24), ShiftLeft(u[3], 16)),
                   WordOr(ShiftLeft(u[4], 8), ToWord(BitXor(u[5], OTA_VERSION_ID)))),
            MASK32)

-----------------------------------------------------------------------------
(* FirmwareLCG *)

\* __init__: self.state = seed & 0xFFFFFFFF
FirmwareLCG(s) == WordAnd(s, MASK32)

\* Variant: the state is kept to 32 bits instead of 31.
rand_mask32(state) ==
    WordAnd(WordAdd(WordMul(ToWord(LCG_MULTIPLIER), state), ToWord(LCG_INCREMENT)),
            MASK32)

\* rand(): the new state, which is also the value returned.
rand(state) ==
    WordAnd(WordAdd(WordMul(ToWord(LCG_MULTIPLIER), state), ToWord(LCG_INCREMENT)),
            MASK31)

\* Variant: the bound is inclusive.
rand_range_inclusive(r, max_val) == WordMod(r, max_val + 1)

\* rand_range(max_val), given the value rand() returned.
rand_range(r, max_val) == WordMod(r, max_val)

-----------------------------------------------------------------------------
(* FHSSGenerator *)

Indices == 0..(FHSS_SEQUENCE_LEN - 1)

SyncChannel(fc) == fc \div 2

\* Variant: no sync-channel placement, every position gets k % fc.
InitialAllocationPlain(fc, sync) == [k \in Indices |-> k % fc]

\* build_sequence, first loop.
InitialAllocation(fc, sync) ==
    [k \in Indices |->
        IF k % fc = 0 THEN sync
        ELSE IF k % fc = sync THEN 0
        ELSE k % fc]

\* Variant: block-start positions are shuffled like the others.
IsShufflePositionAlways(k, fc) == TRUE

\* build_sequence, second loop: the positions that draw and swap.
IsShufflePosition(k, fc) == k % fc # 0

BlockStart(k, fc) == (k \div fc) * fc

\* Variant: the "+ 1" is missing, so offset 0 (the block start) can be drawn.
RandOffsetFromZero(r, fc) == rand_range(r, fc - 1)

RandOffset(r, fc) == rand_range(r, fc - 1) + 1

\* Variant: the target is taken relative to the position, not to its block.
SwapIdxFromPosition(k, fc, r) == k + RandOffset(r, fc)

SwapIdx(k, fc, r) == BlockStart(k, fc) + RandOffset(r, fc)

\* Variant: off-by-one in the range check.
SwapAllowedInclusive(idx) == idx <= FHSS_SEQUENCE_LEN

SwapAllowed(idx) == idx < FHSS_SEQUENCE_LEN

Swap(seq, a, b) == [seq EXCEPT ![a] = seq[b], ![b] = seq[a]]

-----------------------------------------------------------------------------
(* Inputs *)

Phrases ==
    { <<"4","2",",","1","3",",","9",",","8">>,
      <<"0",",","0",",","0",",","4">>,
      <<"7",",","9",",","4","2",",","1","3",",","9",",","8">>,
      <<"1","7","0",",","1","3",",","9",",","8">>,
      <<"1",",","2",",","3">>,
      <<"2","5","6",",","1",",","2",",","3">>,
      <<>>,
      <<"U+00B2",",","1",",","2",",","3">>,
      <<"U+DCFF">> }

DomainNames == DOMAIN DOMAINS

FreqCounts == 1..FHSS_SEQUENCE_LEN

ApiSeed(n) == <<(n * 40503) % HALF, ((n * 25173) + 13849) % HALF>>

ApiSeeds == {ApiSeed(n) : n \in 1..NumApiSeeds}

NoUid == <<>>

NoWord == <<0, 0>>

NoSequence == [k \in Indices |-> 0]

NoPrev == [valid |-> FALSE, seed |-> NoWord, freq_count |-> 0, sequence |-> NoSequence]

-----------------------------------------------------------------------------
(* The state machine *)

\* A run of the command line: main() with parsed arguments.
InitMain ==
    /\ entry = "main"
    /\ pc = "main"
    /\ phrase \in Phrases
    /\ domain \in DomainNames
    /\ seed = NoWord
    /\ freq_count = 0

\* A direct use of the class: FHSSGenerator(freq_count, seed).build_sequence().
InitApi ==
    /\ entry = "api"
    /\ pc = "construct"
    /\ phrase = <<>>
    /\ domain = "none"
    /\ seed \in ApiSeeds
    /\ freq_count \in FreqCounts

Init ==
    /\ InitMain \/ InitApi
    /\ exc = "none"
    /\ uid = NoUid
    /\ sync_channel = 0
    /\ rng = NoWord
    /\ sequence = NoSequence
    /\ i = 0
    /\ draws = 0
    /\ sync_reported = -1
    /\ prev = NoPrev

\* main: uid = generate_uid(args.phrase)
GenerateUid ==
    /\ pc = "main"
    /\ LET r == generate_uid(phrase)
       IN  /\ exc' = r.exc
           /\ uid' = r.value
           /\ pc' = IF r.exc = "none" THEN "seed" ELSE "crashed"
    /\ UNCHANGED <<entry, phrase, domain, seed, freq_count, sync_channel, rng,
                   sequence, i, draws, sync_reported, prev>>

\* main: seed = compute_seed_from_uid(uid); freq_count looked up in DOMAINS
ComputeSeed ==
    /\ pc = "seed"
    /\ seed' = compute_seed_from_uid(uid)
    /\ freq_count' = DOMAINS[domain].freq_count
    /\ pc' = "construct"
    /\ UNCHANGED <<entry, exc, phrase, domain, uid, sync_channel, rng,
                   sequence, i, draws, sync_reported, prev>>

\* Variant: one generator object shared by all builds; only the first seeds it.
ConstructSharedRng ==
    /\ pc = "construct"
    /\ sync_channel' = SyncChannel(freq_count)
    /\ rng' = IF prev.valid THEN rng ELSE FirmwareLCG(seed)
    /\ draws' = 0
    /\ pc' = "alloc"
    /\ UNCHANGED <<entry, exc, phrase, domain, uid, seed, freq_count,
                   sequence, i, sync_reported, prev>>

\* FHSSGenerator.__init__
Construct ==
    /\ pc = "construct"
    /\ sync_channel' = SyncChannel(freq_count)
    /\ rng' = FirmwareLCG(seed)
    /\ draws' = 0
    /\ pc' = "alloc"
    /\ UNCHANGED <<entry, exc, phrase, domain, uid, seed, freq_count,
                   sequence, i, sync_reported, prev>>

\* build_sequence: sequence = [0] * 256 and the initial channel allocation
Allocate ==
    /\ pc = "alloc"
    /\ sequence' = InitialAllocation(freq_count, sync_channel)
    /\ i' = 0
    /\ pc' = "shuffle"
    /\ UNCHANGED <<entry, exc, phrase, domain, uid, seed, freq_count,
                   sync_channel, rng, draws, sync_reported, prev>>

\* build_sequence: one iteration of the shuffle loop
ShuffleStep ==
    /\ pc = "shuffle"
    /\ i < FHSS_SEQUENCE_LEN
    /\ IF ~IsShufflePosition(i, freq_count)
       THEN /\ i' = i + 1
            /\ UNCHANGED <<pc, exc, rng, draws, sequence>>
       ELSE IF freq_count - 1 = 0
       THEN \* rand_range(0): self.rand() % 0, after rand() advanced the state
            /\ rng' = rand(rng)
            /\ draws' = draws + 1
            /\ exc' = "ZeroDivisionError"
            /\ pc' = "crashed"
            /\ UNCHANGED <<i, sequence>>
       ELSE LET r == rand(rng)
                swap_idx == SwapIdx(i, freq_count, r)
            IN  /\ rng' = r
                /\ draws' = draws + 1
                /\ IF ~SwapAllowed(swap_idx)
                   THEN /\ i' = i + 1
                        /\ UNCHANGED <<pc, exc, sequence>>
                   ELSE IF swap_idx \in Indices
                   THEN /\ sequence' = Swap(sequence, i, swap_idx)
                        /\ i' = i + 1
                        /\ UNCHANGED <<pc, exc>>
                   ELSE /\ exc' = "IndexError"
                        /\ pc' = "crashed"
                        /\ UNCHANGED <<i, sequence>>
    /\ UNCHANGED <<entry, phrase, domain, uid, seed, freq_count, sync_channel,
                   sync_reported, prev>>

\* build_sequence: return tuple(sequence)
ReturnSequence ==
    /\ pc = "shuffle"
    /\ i = FHSS_SEQUENCE_LEN
    /\ pc' = "built"
    /\ UNCHANGED <<entry, exc, phrase, domain, uid, seed, freq_count, sync_channel,
                   rng, sequence, i, draws, sync_reported, prev>>

\* main: the logged sync channel, sequence[freq_count]
Report ==
    /\ pc = "built"
    /\ entry = "main"
    /\ IF freq_count \in Indices
       THEN /\ sync_reported' = sequence[freq_count]
            /\ pc' = "done"
            /\ UNCHANGED exc
       ELSE /\ exc' = "IndexError"
            /\ pc' = "crashed"
            /\ UNCHANGED sync_reported
    /\ UNCHANGED <<entry, phrase, domain, uid, seed, freq_count, sync_channel,
                   rng, sequence, i, draws, prev>>

\* The program is run again, same --domain, any --phrase.  The finished run's
\* result is remembered for comparison; a new process starts from scratch,
\* except rng, which Construct replaces.
Rerun ==
    /\ pc \in {"done", "crashed"}
    /\ entry = "main"
    /\ prev' = IF pc = "done"
               THEN [valid |-> TRUE, seed |-> seed, freq_count |-> freq_count,
                     sequence |-> sequence]
               ELSE prev
    /\ phrase' \in Phrases
    /\ pc' = "main"
    /\ exc' = "none"
    /\ uid' = NoUid
    /\ seed' = NoWord
    /\ freq_count' = 0
    /\ sync_channel' = 0
    /\ sequence' = NoSequence
    /\ i' = 0
    /\ draws' = 0
    /\ sync_reported' = -1
    /\ UNCHANGED <<entry, domain, rng>>

Next ==
    \/ GenerateUid
    \/ ComputeSeed
    \/ Construct
    \/ Allocate
    \/ ShuffleStep
    \/ ReturnSequence
    \/ Report
    \/ Rerun

Spec == Init /\ [][Next]_vars

-----------------------------------------------------------------------------
(* Properties *)

Built == pc \in {"built", "done"}

\* The build has moved at least one value away from its initial place.
Shuffled == sequence # InitialAllocation(freq_count, sync_channel)

C1_NoRaiseInRange ==
    /\ exc \notin {"ZeroDivisionError", "IndexError"}
    /\ (pc = "shuffle" /\ i < FHSS_SEQUENCE_LEN /\ i % freq_count # 0)
          => freq_count - 1 > 0
    /\ pc = "shuffle" => i \in 0..FHSS_SEQUENCE_LEN
    /\ Built => /\ DOMAIN sequence = 0..255
                /\ \A k \in 0..255 : sequence[k] \in 0..(freq_count - 1)

C1_Progress ==
    /\ pc = "construct" => pc' = "alloc"
    /\ pc = "alloc" => pc' = "shuffle"
    /\ (pc = "shuffle" /\ i < FHSS_SEQUENCE_LEN) => (pc' = "shuffle" /\ i' = i + 1)
    /\ (pc = "shuffle" /\ i = FHSS_SEQUENCE_LEN) => pc' = "built"

\* C1: for every freq_count in 1..256 and every seed tried, build_sequence
\* never raises (no rand_range with bound 0, no index outside 0..255), every
\* step it takes moves it on towards its return, and it returns 256 elements,
\* each in [0, freq_count).
C1_BuildTotalInRange == []C1_NoRaiseInRange /\ [][C1_Progress]_vars

C1_Witness == pc = "built" /\ freq_count = 1 /\ draws = 0 /\ exc = "none"

\* C2: a build from a fresh generator with the same seed and the same
\* freq_count as an earlier build returns the identical sequence.
C2_Deterministic ==
    (pc = "done" /\ prev.valid /\ prev.seed = seed /\ prev.freq_count = freq_count)
        => prev.sequence = sequence

C2_Witness ==
    /\ pc = "done" /\ prev.valid /\ prev.seed = seed
    /\ prev.freq_count = freq_count /\ Shuffled

\* The comma-separated values of a phrase that takes the numeric path, or
\* <<>> for a phrase that does not, for the phrases of the model.
NumericValues(s) ==
    CASE s = <<"4","2",",","1","3",",","9",",","8">> -> <<42, 13, 9, 8>>
      [] s = <<"0",",","0",",","0",",","4">> -> <<0, 0, 0, 4>>
      [] s = <<"7",",","9",",","4","2",",","1","3",",","9",",","8">>
            -> <<7, 9, 42, 13, 9, 8>>
      [] s = <<"1","7","0",",","1","3",",","9",",","8">> -> <<170, 13, 9, 8>>
      [] OTHER -> <<>>

RECURSIVE LeftPad(_)
LeftPad(v) == IF Len(v) >= 6 THEN v ELSE LeftPad(<<0>> \o v)

\* C3: generate_uid always returns exactly 6 bytes and no exception escapes:
\* 4 to 6 tokens that are all decimal integers in [0, 255] give those values
\* left-padded with zeros, every other phrase gives the first 6 digest bytes.
C3_UidTotalTwoPaths ==
    (entry = "main" /\ pc # "main")
        => /\ exc = "none"
           /\ DOMAIN uid = 0..5
           /\ \A k \in 0..5 : uid[k] \in 0..255
           /\ IF NumericValues(phrase) # <<>>
              THEN \A k \in 0..5 : uid[k] = LeftPad(NumericValues(phrase))[k + 1]
              ELSE \A k \in 0..5 : uid[k] = Md5First6(phrase)[k + 1]

\* b with bit 2 inverted: b XOR 4.
FlipBit2(b) == IF (b \div 4) % 2 = 1 THEN b - 4 ELSE b + 4

\* C4: the seed is (uid[2] << 24) | (uid[3] << 16) | (uid[4] << 8) |
\* (uid[5] XOR 4), a value in [0, 2^32), and does not change when uid[0] or
\* uid[1] change.
C4_SeedFormula ==
    (entry = "main" /\ pc = "construct")
        => /\ seed[1] = uid[2] * 256 + uid[3]
           /\ seed[2] = uid[4] * 256 + FlipBit2(uid[5])
           /\ seed[1] \in 0..65535 /\ seed[2] \in 0..65535
           /\ \A b \in 0..255 :
                 /\ compute_seed_from_uid([uid EXCEPT ![0] = b]) = seed
                 /\ compute_seed_from_uid([uid EXCEPT ![1] = b]) = seed
                 /\ compute_seed_from_uid([uid EXCEPT ![0] = b, ![1] = 255 - b]) = seed

C4_Witness ==
    /\ entry = "main" /\ pc = "construct"
    /\ uid[0] = 7 /\ uid[1] = 9 /\ uid[5] = 8
    /\ seed = <<42 * 256 + 13, 9 * 256 + 12>>

\* 2^31 - 1, the largest integer TLC's arithmetic holds.
MaxInt31 == (2 ^ 30 - 1) + 2 ^ 30

\* (x + y) mod 2^31 for x, y in [0, 2^31).
AddMod31(x, y) == IF x > MaxInt31 - y THEN (x - (MaxInt31 - y)) - 1 ELSE x + y

\* (a * b) mod 2^31 for a, b in [0, 2^31), by doubling.
RECURSIVE MulMod31(_, _)
MulMod31(a, b) ==
    IF b = 0 THEN 0
    ELSE LET h == MulMod31(a, b \div 2)
             d == AddMod31(h, h)
         IN  IF b % 2 = 1 THEN AddMod31(d, a) ELSE d

\* A word below 2^31 as an integer; a word as an integer mod 2^31.
WordValue(w) == w[1] * 65536 + w[2]

WordValueMod31(w) == (w[1] % 32768) * 65536 + w[2]

\* (1103515245 * state + 12345) mod 2^31, as an integer.
Recurrence(state) ==
    AddMod31(MulMod31(LCG_MULTIPLIER, WordValueMod31(state)), LCG_INCREMENT)

C5_Draw ==
    (draws' = draws + 1)
        => /\ rng'[1] \in 0..32767 /\ rng'[2] \in 0..65535
           /\ WordValue(rng') = Recurrence(rng)
           /\ (seed = <<0, 0>> /\ draws = 0) => WordValue(rng') = 12345
           /\ freq_count - 1 > 0
                 => /\ rand_range(rng', freq_count - 1) = WordValue(rng') % (freq_count - 1)
                    /\ rand_range(rng', freq_count - 1) \in 0..(freq_count - 2)

\* C5: every rand() sets the state to (1103515245 * state + 12345) mod 2^31
\* and returns it, a value in [0, 2^31); from seed 0 the first value is
\* 12345; rand_range(bound) is that one step's value mod bound, in [0, bound).
C5_Recurrence == [][C5_Draw]_vars

C5_Witness == seed = <<0, 0>> /\ draws = 1 /\ rng = <<0, 12345>>

\* C6: for every supported domain the value main reports as the sync channel,
\* sequence[freq_count], is freq_count \div 2.
C6_ReportedSync ==
    pc = "done"
        => /\ freq_count \in {4, 13, 20, 40}
           /\ sync_reported = freq_count \div 2
           /\ sequence[freq_count] = freq_count \div 2

C6_Witness == pc = "done" /\ freq_count = 13 /\ sync_reported = 6 /\ Shuffled

AfterStep1 == pc = "shuffle" /\ i = 0

BlockStartsHoldSync ==
    \A k \in 0..255 : k % freq_count = 0 => sequence[k] = freq_count \div 2

\* C7 as stated: after step 1 every block start holds freq_count \div 2, and
\* some freq_count in 1..256 and some value drawn from the generator make the
\* swap of a position other than a block start target a block start.  Every
\* residue of the draw mod (freq_count - 1) is tried.
C7_BlockStartMayBeTargeted ==
    /\ AfterStep1 => BlockStartsHoldSync
    /\ \E fc \in 2..FHSS_SEQUENCE_LEN : \E k \in 0..255 : \E v \in 0..(fc - 2) :
          /\ k % fc # 0
          /\ SwapAllowed(SwapIdx(k, fc, ToWord(v)))
          /\ SwapIdx(k, fc, ToWord(v)) % fc = 0

\* C7 amended: after step 1 every block start holds freq_count \div 2 (2 for
\* freq_count = 4), and step 2 never alters it: the value at every block start
\* is still freq_count \div 2 after every swap and in the returned sequence.
C7_BlockStartsKeepSync ==
    (pc = "shuffle" \/ Built) => BlockStartsHoldSync

C7_Witness ==
    /\ pc = "built" /\ freq_count = 4 /\ Shuffled
    /\ \A k \in 0..255 : k % 4 = 0 => sequence[k] = 2

C8_Step ==
    (pc = "shuffle" /\ i < FHSS_SEQUENCE_LEN)
        => /\ i' = i + 1
           /\ IF i % freq_count = 0
              THEN draws' = draws /\ rng' = rng /\ sequence' = sequence
              ELSE /\ draws' = draws + 1
                   /\ rng' # rng
                   /\ WordValue(rng') = Recurrence(rng)
                   /\ LET t == ((i \div freq_count) * freq_count)
                                 + (WordValue(rng') % (freq_count - 1)) + 1
                      IN  IF t >= 256
                          THEN sequence' = sequence
                          ELSE sequence' = [sequence EXCEPT ![i] = sequence[t],
                                                            ![t] = sequence[i]]

C8_DrawCount ==
    Built => draws = 256 - ((256 + freq_count - 1) \div freq_count)

\* C8: step 2 visits the positions in increasing order; a position with
\* i mod freq_count # 0 makes exactly one draw, a block start none, so a build
\* makes 256 - ceil(256 / freq_count) draws; a swap whose target is >= 256 is
\* skipped with the array unchanged and the generator advanced; a performed
\* swap exchanges the values the array holds at that moment.
C8_ShuffleOrder == [][C8_Step]_vars /\ []C8_DrawCount

C8_Witness == pc = "built" /\ freq_count = 40 /\ draws = 249 /\ Shuffled

BlockOf(b) == b..(IF b + freq_count <= 256 THEN b + freq_count - 1 ELSE 255)

Occurrences(seq, b, c) == Cardinality({k \in BlockOf(b) : seq[k] = c})

\* C9: in the returned sequence every block holds the same multiset of values
\* as after step 1: a full block holds each channel 0..freq_count-1 exactly
\* once, the trailing partial block holds pairwise distinct channels.
C9_BlocksArePermutations ==
    Built =>
      LET initial == InitialAllocation(freq_count, sync_channel)
      IN  \A b \in {k \in 0..255 : k % freq_count = 0} :
            /\ \A c \in 0..(freq_count - 1) :
                  Occurrences(sequence, b, c) = Occurrences(initial, b, c)
            /\ b + freq_count <= 256
                  => \A c \in 0..(freq_count - 1) : Occurrences(sequence, b, c) = 1
            /\ b + freq_count > 256
                  => \A c \in 0..(freq_count - 1) : Occurrences(sequence, b, c) <= 1

C9_Witness ==
    /\ pc = "built" /\ freq_count = 40 /\ Shuffled
    /\ \E k \in 240..255 : sequence[k] # InitialAllocation(40, 20)[k]

\* The seed with its most significant bit inverted.
FlipTopBit(w) == <<(w[1] + 32768) % 65536, w[2]>>

\* C10: a seed and the same seed with bit 31 inverted give the same first
\* rand() value, hence the same generator state from then on, and builds from
\* the two seeds with the same freq_count return identical sequences.
C10_TopBitIgnored ==
    /\ pc = "alloc" => rand(FlipTopBit(rng)) = rand(rng)
    /\ (pc = "done" /\ prev.valid /\ prev.freq_count = freq_count
           /\ prev.seed = FlipTopBit(seed))
          => prev.sequence = sequence

C10_Witness ==
    /\ pc = "done" /\ prev.valid /\ prev.freq_count = freq_count
    /\ prev.seed = <<42 * 256 + 13, 9 * 256 + 12>>
    /\ seed = <<170 * 256 + 13, 9 * 256 + 12>>
    /\ Shuffled

====
